---- MODULE Spec2Model ----
(***************************************************************************)
(* A model of crypto-wallet.py: the Rabin-Miller primality engine, the     *)
(* random prime search, the number-theory helpers and the RSA keypair      *)
(* derivation.                                                             *)
(*                                                                         *)
(* The file is a Python 3 program: string_to_int adds the elements of a    *)
(* bytes object to an integer (line 115), which only Python 3 allows, and  *)
(* rabin_miller wraps its halving in int() (line 50).  So "/" is true      *)
(* division: its result is an IEEE-754 binary64 value, correctly rounded.  *)
(* Python integers are unbounded, so the model carries its own naturals    *)
(* (little-endian limb sequences) and its own binary64 arithmetic.         *)
(***************************************************************************)
EXTENDS Integers, Sequences, FiniteSets, TLC

(***************************************************************************)
(* Python int: a natural number as a sequence of limbs, least significant  *)
(* first, without leading zero limbs; zero is << >>.                       *)
(***************************************************************************)
Base == 2^15

RECURSIVE BFromInt(_)
BFromInt(n) == IF n = 0 THEN << >> ELSE <<n % Base>> \o BFromInt(n \div Base)

RECURSIVE BToInt(_)
BToInt(a) == IF a = << >> THEN 0 ELSE Head(a) + Base * BToInt(Tail(a))

\* a without its leading zero limbs
BTrim(a) ==
    LET nz == {i \in 1..Len(a) : a[i] # 0}
    IN  IF nz = {} THEN << >>
        ELSE SubSeq(a, 1, CHOOSE i \in nz : \A j \in nz : j <= i)

Limb(a, i) == IF i <= Len(a) THEN a[i] ELSE 0

\* -1, 0 or 1 as a < b, a = b, a > b
BCmp(a, b) ==
    IF Len(a) # Len(b) THEN (IF Len(a) < Len(b) THEN -1 ELSE 1)
    ELSE LET diff == {i \in 1..Len(a) : a[i] # b[i]}
         IN  IF diff = {} THEN 0
             ELSE LET top == CHOOSE i \in diff : \A j \in diff : j <= i
                  IN  IF a[top] < b[top] THEN -1 ELSE 1

\* a + b: limb i receives a carry when a lower limb overflows and every limb
\* between passes the carry on
BAdd(a, b) ==
    LET n == IF Len(a) < Len(b) THEN Len(b) ELSE Len(a)
        sum(i) == Limb(a, i) + Limb(b, i)
        carry(i) == \E j \in 1..(i - 1) :
                        /\ sum(j) >= Base
                        /\ \A k \in (j + 1)..(i - 1) : sum(k) = Base - 1
    IN  BTrim([i \in 1..(n + 1) |->
                  (sum(i) + (IF carry(i) THEN 1 ELSE 0)) % Base])

\* a - b for a >= b: limb i lends when a lower limb falls short and every
\* limb between passes the loan on
BSub(a, b) ==
    LET borrow(i) == \E j \in 1..(i - 1) :
                         /\ a[j] < Limb(b, j)
                         /\ \A k \in (j + 1)..(i - 1) : a[k] = Limb(b, k)
    IN  BTrim([i \in 1..Len(a) |->
                  (a[i] - Limb(b, i) - (IF borrow(i) THEN 1 ELSE 0) + Base)
                      % Base])

BShiftLimb(a) == IF a = << >> THEN << >> ELSE <<0>> \o a

\* a * k for 0 <= k <= Base: the low and the high halves of the limb products
BMulSmall(a, k) ==
    IF k = 0 \/ a = << >> THEN << >>
    ELSE BAdd([i \in 1..Len(a) |-> (a[i] * k) % Base],
              <<0>> \o [i \in 1..Len(a) |-> (a[i] * k) \div Base])

\* a * b, one limb of b at a time
RECURSIVE BMulFrom(_, _)
BMulFrom(a, b) ==
    IF b = << >> THEN << >>
    ELSE BAdd(BMulSmall(a, Head(b)), BShiftLimb(BMulFrom(a, Tail(b))))

BMul(a, b) ==
    IF a = << >> \/ b = << >> THEN << >>
    ELSE IF Len(a) < Len(b) THEN BMulFrom(b, a) ELSE BMulFrom(a, b)

\* short division, one limb of a at a time from the top: acc holds the
\* quotient limbs found so far and the remainder, which stays below k
RECURSIVE BDivSmallFrom(_, _, _, _)
BDivSmallFrom(a, k, i, acc) ==
    IF i = 0 \/ acc.r >= k THEN acc
    ELSE LET t == acc.r * Base + a[i]
         IN  BDivSmallFrom(a, k, i - 1,
                           [q |-> <<t \div k>> \o acc.q, r |-> t % k])

\* quotient and remainder of a by 1 <= k <= Base (the remainder a TLC integer)
BDivSmall(a, k) ==
    LET d == BDivSmallFrom(a, k, Len(a), [q |-> << >>, r |-> 0])
    IN  [q |-> BTrim(d.q), r |-> d.r]

BIsOdd(a) == a # << >> /\ a[1] % 2 = 1

\* the number of bits of 0 <= n < 2^30
BitLenInt(n) ==
    IF n = 0 THEN 0 ELSE CHOOSE k \in 1..30 : 2^(k - 1) <= n /\ n < 2^k

BBitLen(a) ==
    IF a = << >> THEN 0 ELSE 15 * (Len(a) - 1) + BitLenInt(a[Len(a)])

BZeros(k) == [i \in 1..k |-> 0]

\* a * 2^k
BShl(a, k) ==
    IF a = << >> THEN << >> ELSE BZeros(k \div 15) \o BMulSmall(a, 2^(k % 15))

\* a \div 2^k: whole limbs dropped, then each limb takes the low bits of the
\* limb above
BShr(a, k) ==
    IF k \div 15 >= Len(a) THEN << >>
    ELSE LET up == SubSeq(a, (k \div 15) + 1, Len(a))
             m  == 2^(k % 15)
         IN  BTrim([i \in 1..Len(up) |->
                       (up[i] \div m) + (Limb(up, i + 1) % m) * (Base \div m)])

\* a % 2^k
BLowBits(a, k) == BSub(a, BShl(BShr(a, k), k))

\* the number of trailing zero bits of 0 < n < 2^30
TrailingZerosInt(n) ==
    CHOOSE k \in 0..29 : n % 2^k = 0 /\ n % 2^(k + 1) # 0

\* the number of trailing zero bits of a > 0
BTrailingZeros(a) ==
    LET low == CHOOSE i \in 1..Len(a) : a[i] # 0 /\ \A j \in 1..(i - 1) : a[j] = 0
    IN  15 * (low - 1) + TrailingZerosInt(a[low])

\* the largest q in 0..Base-1 with q * b <= r, for r < Base * b and b of two
\* limbs or more with its top limb at least Base/2: the quotient of the top
\* limbs exceeds q by 2 at most
BQuotientDigit(r, b) ==
    LET n   == Len(b)
        est == (Limb(r, n + 1) * Base + Limb(r, n)) \div b[n]
        qh  == IF est > Base - 1 THEN Base - 1 ELSE est
    IN  CHOOSE q \in {x \in (qh - 2)..qh : x >= 0} :
            /\ BCmp(BMulSmall(b, q), r) <= 0
            /\ BCmp(BMulSmall(b, q + 1), r) > 0

\* schoolbook long division, one limb of a at a time from the top: acc holds
\* the quotient limbs found so far and the remainder, which stays below b
RECURSIVE BDivModFrom(_, _, _, _)
BDivModFrom(a, b, i, acc) ==
    IF i = 0 \/ BCmp(acc.r, b) >= 0 THEN acc
    ELSE LET r1 == BTrim(<<a[i]>> \o acc.r)
             qd == BQuotientDigit(r1, b)
         IN  BDivModFrom(a, b, i - 1,
                         [q |-> <<qd>> \o acc.q,
                          r |-> BSub(r1, BMulSmall(b, qd))])

\* quotient and remainder of a by b > 0; a divisor of several limbs is first
\* scaled, with the dividend, to bring its top limb to Base/2 or more, and
\* the division starts below the top limbs of the dividend, which are less
\* than the divisor
BDivMod(a, b) ==
    IF Len(b) = 1
    THEN LET d == BDivSmall(a, b[1]) IN [q |-> d.q, r |-> BFromInt(d.r)]
    ELSE IF Len(a) < Len(b) THEN [q |-> << >>, r |-> a]
    ELSE LET k  == 15 - BitLenInt(b[Len(b)])
             an == BShl(a, k)
             i  == Len(an) - Len(b) + 1
             d  == BDivModFrom(an, BShl(b, k), i,
                               [q |-> << >>,
                                r |-> BTrim(SubSeq(an, i + 1, Len(an)))])
         IN  [q |-> BTrim(d.q), r |-> BShr(d.r, k)]

(***************************************************************************)
(* Python float: an IEEE-754 binary64 value (-1)^neg * man * 2^exp with    *)
(* man a natural of at most 53 bits, kept odd (or zero, with exp 0) so     *)
(* that equal values are equal records.  Every operation computes the      *)
(* exact result and rounds it to nearest, ties to even.  The magnitudes    *)
(* met in this program stay far inside the normal exponent range, so       *)
(* overflow and subnormals are not modelled; the sign of zero is dropped.  *)
(***************************************************************************)
MantissaBits == 53

FCanon(neg, man, exp) ==
    IF man = << >> THEN [neg |-> FALSE, man |-> << >>, exp |-> 0]
    ELSE LET z == BTrailingZeros(man)
         IN  [neg |-> neg, man |-> BShr(man, z), exp |-> exp + z]

\* the binary64 nearest to (-1)^neg * (man + f) * 2^exp, where 0 < f < 1 if
\* sticky and f = 0 otherwise
FRound(neg, man, exp, sticky) ==
    LET len == BBitLen(man)
    IN  IF len <= MantissaBits THEN FCanon(neg, man, exp)
        ELSE LET d    == len - MantissaBits
                 q    == BShr(man, d)
                 c    == BCmp(BLowBits(man, d), BShl(<<1>>, d - 1))
                 up   == c > 0 \/ (c = 0 /\ (sticky \/ BIsOdd(q)))
             IN  FCanon(neg, IF up THEN BAdd(q, <<1>>) ELSE q, exp + d)

\* float(n) for a Python int n >= 0
FFromInt(n) == FRound(FALSE, n, 0, FALSE)

\* a / b, b nonzero: the quotient is developed to at least 55 bits, the
\* remainder is the sticky bit
FDiv(a, b) ==
    IF a.man = << >> THEN FCanon(FALSE, << >>, 0)
    ELSE LET k  == IF BBitLen(a.man) >= BBitLen(b.man) + MantissaBits + 2 THEN 0
                   ELSE BBitLen(b.man) + MantissaBits + 2 - BBitLen(a.man)
             dm == BDivMod(BShl(a.man, k), b.man)
         IN  FRound(a.neg # b.neg, dm.q, a.exp - k - b.exp, dm.r # << >>)

FMul(a, b) == FRound(a.neg # b.neg, BMul(a.man, b.man), a.exp + b.exp, FALSE)

FNeg(a) == FCanon(~a.neg, a.man, a.exp)

FAdd(a, b) ==
    LET x  == IF a.exp < b.exp THEN a.exp ELSE b.exp
        ma == BShl(a.man, a.exp - x)
        mb == BShl(b.man, b.exp - x)
    IN  IF a.neg = b.neg THEN FRound(a.neg, BAdd(ma, mb), x, FALSE)
        ELSE IF BCmp(ma, mb) >= 0 THEN FRound(a.neg, BSub(ma, mb), x, FALSE)
        ELSE FRound(b.neg, BSub(mb, ma), x, FALSE)

FSub(a, b) == FAdd(a, FNeg(b))

\* int(x) for x >= 0: truncation
FToInt(a) == IF a.exp >= 0 THEN BShl(a.man, a.exp) ELSE BShr(a.man, -a.exp)

(***************************************************************************)
(* Python numbers as the arithmetic operators see them: an int (kind       *)
(* "int", exp 0, man the exact magnitude) or a float (kind "float", a      *)
(* binary64 value).  An operation on two ints is exact; with a float       *)
(* operand the int is first converted to the nearest float.                *)
(***************************************************************************)
PyInt(n) == [kind |-> "int", neg |-> FALSE, man |-> n, exp |-> 0]

PyFloat(f) == [kind |-> "float", neg |-> f.neg, man |-> f.man, exp |-> f.exp]

AsFloat(x) == IF x.kind = "int" THEN FRound(x.neg, x.man, 0, FALSE) ELSE x

BothInt(a, b) == a.kind = "int" /\ b.kind = "int"

\* a / b: true division.  On two ints the exact quotient is rounded once.
PyTrueDiv(a, b) ==
    IF BothInt(a, b) THEN PyFloat(FDiv(a, b))
    ELSE PyFloat(FDiv(AsFloat(a), AsFloat(b)))

PyMul(a, b) ==
    IF BothInt(a, b)
    THEN [kind |-> "int", neg |-> a.neg # b.neg /\ a.man # << >> /\ b.man # << >>,
          man |-> BMul(a.man, b.man), exp |-> 0]
    ELSE PyFloat(FMul(AsFloat(a), AsFloat(b)))

PyAdd(a, b) ==
    IF BothInt(a, b)
    THEN IF a.neg = b.neg
         THEN [kind |-> "int", neg |-> a.neg, man |-> BAdd(a.man, b.man), exp |-> 0]
         ELSE IF BCmp(a.man, b.man) = 0 THEN PyInt(<< >>)
         ELSE IF BCmp(a.man, b.man) > 0
         THEN [kind |-> "int", neg |-> a.neg, man |-> BSub(a.man, b.man), exp |-> 0]
         ELSE [kind |-> "int", neg |-> b.neg, man |-> BSub(b.man, a.man), exp |-> 0]
    ELSE PyFloat(FAdd(AsFloat(a), AsFloat(b)))

PyNeg(a) ==
    [kind |-> a.kind, neg |-> ~a.neg /\ a.man # << >>, man |-> a.man, exp |-> a.exp]

PySub(a, b) == PyAdd(a, PyNeg(b))

\* x > 0
PyPositive(x) == ~x.neg /\ x.man # << >>

(***************************************************************************)
(* Integer helpers on Python ints (naturals).                              *)
(***************************************************************************)
Zero == << >>
One == <<1>>
Two == <<2>>

\* a % b for naturals, b > 0
Mod(a, b) == BDivMod(a, b).r

\* pow(a, r, n): a^r mod n, the exponent taken limb by limb from the top.
\* x^(2^i) mod n; x is compared with Zero first so that each square is
\* evaluated before the next is taken
RECURSIVE SquareTimes(_, _, _)
SquareTimes(x, i, n) ==
    IF i = 0 \/ x = Zero THEN x ELSE SquareTimes(Mod(BMul(x, x), n), i - 1, n)

\* acc.p * acc.s^k mod n for one limb k, bit by bit from the lowest: acc.s
\* runs through the repeated squares, acc.p collects those whose bit is set
RECURSIVE PowLimbFrom(_, _, _)
PowLimbFrom(acc, k, n) ==
    IF k = 0 \/ acc.p = Zero THEN acc.p
    ELSE PowLimbFrom([p |-> IF k % 2 = 1 THEN Mod(BMul(acc.p, acc.s), n)
                            ELSE acc.p,
                      s |-> IF k >= 2 THEN Mod(BMul(acc.s, acc.s), n)
                            ELSE acc.s],
                     k \div 2, n)

\* acc^(2^15) * a^(top limb of r) mod n, then the limbs below
RECURSIVE ModExpFrom(_, _, _, _)
ModExpFrom(acc, a, r, n) ==
    IF r = << >> \/ acc = Zero THEN acc
    ELSE ModExpFrom(PowLimbFrom([p |-> SquareTimes(acc, 15, n), s |-> a],
                                r[Len(r)], n),
                    a, SubSeq(r, 1, Len(r) - 1), n)

ModExp(a, r, n) == ModExpFrom(Mod(One, n), Mod(a, n), r, n)

(***************************************************************************)
(* rabin_miller(possiblePrime, aTestInteger), lines 32-61                  *)
(***************************************************************************)
\* line 50: int(r/2), the halving through a float
HalveInt(r) == FToInt(PyTrueDiv(PyInt(r), PyInt(Two)))

\* lines 46-50: s and r with possiblePrime - 1 = 2^s * r, r odd (r > 0)
RECURSIVE Decompose(_, _)
Decompose(r, s) ==
    IF BIsOdd(r) THEN [r |-> r, s |-> s] ELSE Decompose(HalveInt(r), s + 1)

\* lines 54-60: the squaring loop at its test, with y the square line 55 has
\* just computed when j > 1; the value is what rabin_miller returns
RECURSIVE SquareLoop(_, _, _, _)
SquareLoop(y, j, s, possiblePrime) ==
    IF j > 1 /\ y = One THEN FALSE
    ELSE IF j <= s - 1 /\ y # BSub(possiblePrime, One)
    THEN SquareLoop(Mod(BMul(y, y), possiblePrime), j + 1, s, possiblePrime)
    ELSE y = BSub(possiblePrime, One)

\* lines 53-61, with y the power of line 51
RmVerdict(y, s, possiblePrime) ==
    IF y # One /\ y # BSub(possiblePrime, One)
    THEN SquareLoop(y, 1, s, possiblePrime)
    ELSE TRUE

\* lines 51-61, with dec the r and s of lines 46-50
RmPow(dec, possiblePrime, aTestInteger) ==
    RmVerdict(ModExp(aTestInteger, dec.r, possiblePrime), dec.s, possiblePrime)

rabin_miller(possiblePrime, aTestInteger) ==
    RmPow(Decompose(BSub(possiblePrime, One), 0), possiblePrime, aTestInteger)

(***************************************************************************)
(* gcd(a, b), lines 163-166                                                *)
(***************************************************************************)
RECURSIVE gcd(_, _)
gcd(a, b) == IF b # Zero THEN gcd(b, Mod(a, b)) ELSE a

(***************************************************************************)
(* multiplicative_inverse(e, phi), lines 173-195.  The locals are Python   *)
(* numbers: temp_phi/e is a true division, so temp1 is a float and what is *)
(* computed from it is a float.                                            *)
(***************************************************************************)
\* lines 182-193: the locals after one pass of the loop, with temp1 the
\* quotient of line 181; e takes temp2, x1 takes x and y1 takes y
InverseStep(L, temp1) ==
    [temp_phi |-> L.e,
     e        |-> PySub(L.temp_phi, PyMul(temp1, L.e)),
     x2       |-> L.x1,
     x1       |-> PySub(L.x2, PyMul(temp1, L.x1)),
     d        |-> L.y1,
     y1       |-> PySub(L.d, PyMul(temp1, L.y1))]

RECURSIVE InverseLoop(_)
InverseLoop(L) ==
    IF PyPositive(L.e)
    THEN InverseLoop(InverseStep(L, PyTrueDiv(L.temp_phi, L.e)))
    ELSE L

multiplicative_inverse(e, phi) ==
    LET L == InverseLoop([temp_phi |-> PyInt(phi), e |-> PyInt(e),
                          x2 |-> PyInt(One), x1 |-> PyInt(Zero),
                          d |-> PyInt(Zero), y1 |-> PyInt(One)])
    IN  PyAdd(L.d, PyInt(phi))

(***************************************************************************)
(* Program constants, lines 14-15, and the sieve list of lines 68-72.      *)
(***************************************************************************)
RABIN_MILLER_ITERATIONS == 40
SIZE == 5

SievePrimes ==
    <<2, 3, 5, 7, 11, 13, 17, 19, 23, 29, 31, 37, 41, 43,
      47, 53, 59, 61, 67, 71, 73, 79, 83, 89, 97, 101,
      103, 107, 109, 113, 127, 131, 137, 139, 149, 151,
      157, 163, 167, 173, 179, 181, 191, 193, 197, 199,
      211, 223, 227, 229, 233, 239, 241, 251, 257>>

(***************************************************************************)
(* Bounds of the model: the inputs of the calls and the values the random  *)
(* sources deliver are drawn from these ranges.                            *)
(***************************************************************************)
MaxRmCandidate == 31    \* rabin_miller: odd candidates 3..MaxRmCandidate
MaxCandidate   == 300   \* is_prime: candidates 0..MaxCandidate
MaxWitness     == 4     \* random.randrange(2, n-1) delivers 2..MaxWitness
MaxSize        == 2     \* new_random_prime: size_in_bytes 1..MaxSize
MaxDraw        == 40    \* os.urandom delivers the encodings of 0..MaxDraw
MaxPrime       == 7     \* generate_keypair: odd primes up to MaxPrime
MaxExponent    == 20    \* random.randrange(1, phi) delivers 1..MaxExponent
MaxPhi         == 40    \* multiplicative_inverse: phi in 2..MaxPhi
MaxInverseArg  == 45    \* multiplicative_inverse: e in 1..MaxInverseArg

\* a prime above 2^54 (2^54 + 159), a rabin_miller candidate of 7 bytes
WidePrime == BAdd(BShl(One, 54), BFromInt(159))

\* composites every prime factor of which is above the sieve list
\* (263 * 263, 263 * 269), is_prime candidates
SieveSurvivors == {69169, 70747}

\* products of two sieve-list primes beyond MaxCandidate, is_prime candidates
SieveProducts == {251 * 257, 257 * 257}

\* further values os.urandom delivers: the one-octet string 0xFF, and 262, from
\* which the search reaches 263, the first prime the sieve does not decide
ExtraDraws == {255, 262}

Unset == <<-1>>
NoNumber == [kind |-> "unset", neg |-> FALSE, man |-> Zero, exp |-> 0]

(***************************************************************************)
(* The random sources.                                                     *)
(***************************************************************************)
\* the big-endian encoding of v < 2^31 in size octets
Octets(v, size) ==
    [i \in 1..size |->
        IF size - i >= 4 THEN 0 ELSE (v \div 256^(size - i)) % 256]

\* os.urandom(size): octet strings of length size
Urandom(size) ==
    {Octets(v, size) : v \in {x \in (0..MaxDraw) \cup ExtraDraws :
                                size >= 4 \/ x < 256^size}}

\* random.randrange(2, possible_prime - 1), line 83
WitnessDraws(possible_prime) ==
    {BFromInt(w) : w \in {x \in 2..MaxWitness :
                            BCmp(BFromInt(x + 2), possible_prime) <= 0}}

\* random.randrange(1, phi), lines 210 and 215
ExponentDraws(phi) ==
    {BFromInt(e) : e \in {x \in 1..MaxExponent : BCmp(BFromInt(x), phi) < 0}}

(***************************************************************************)
(* is_prime: the sieve of lines 68-78.  "prime" and "composite" are the    *)
(* return True of line 75 and the return False of line 78; "undecided"     *)
(* is the loop running to its end.                                         *)
(***************************************************************************)
\* the sieve without the comparison of line 74
SieveWithoutEquality(possible_prime) ==
    IF \E i \in 1..Len(SievePrimes) :
           BDivSmall(possible_prime, SievePrimes[i]).r = 0
    THEN "composite" ELSE "undecided"

\* the first prime of the list that divides the candidate decides
SieveVerdict(possible_prime) ==
    LET hits == {i \in 1..Len(SievePrimes) :
                    BDivSmall(possible_prime, SievePrimes[i]).r = 0}
    IN  IF hits = {} THEN "undecided"
        ELSE LET first == CHOOSE i \in hits : \A j \in hits : i <= j
             IN  IF possible_prime = BFromInt(SievePrimes[first])
                 THEN "prime" ELSE "composite"

(***************************************************************************)
(* string_to_int, lines 111-116, and the candidate steps of                *)
(* new_random_prime, lines 122-123 and 132.                                *)
(***************************************************************************)
RECURSIVE StringToIntFrom(_, _, _)
StringToIntFrom(octet_string, i, long_int) ==
    IF i > Len(octet_string) THEN long_int
    ELSE StringToIntFrom(octet_string, i + 1,
             BAdd(BMulSmall(long_int, 256), BFromInt(octet_string[i])))

string_to_int(octet_string) == StringToIntFrom(octet_string, 1, Zero)

MakeOdd(possible_prime) ==
    IF BIsOdd(possible_prime) THEN possible_prime ELSE BAdd(possible_prime, One)

\* a step of 4 in the place of line 132
NextCandidateSkipping(possible_prime) == BAdd(possible_prime, <<4>>)

NextCandidate(possible_prime) == BAdd(possible_prime, Two)

\* the test of line 214 inverted
ExponentRejectedWhenCoprime(g) == g = One

\* line 214: while g != 1
ExponentRejected(g) == g # One

(***************************************************************************)
(* The state: the call under examination, the control location, the        *)
(* return locations of the calls in progress, the locals of is_prime,      *)
(* new_random_prime and generate_keypair, the last value returned and the  *)
(* exception raised.                                                       *)
(***************************************************************************)
VARIABLES call, pc, stack, ip, nrp, gk, ret, err

vars == <<call, pc, stack, ip, nrp, gk, ret, err>>

IpIdle == [possible_prime |-> Unset, iteration |-> -1, witness |-> Unset]
NrpIdle == [size_in_bytes |-> -1, octets |-> << >>, possible_prime |-> Unset,
            count |-> -1]
GkIdle == [p |-> Unset, q |-> Unset, n |-> Unset, phi |-> Unset,
           e |-> Unset, g |-> Unset, d |-> NoNumber]

IpFrame(possible_prime) == [IpIdle EXCEPT !.possible_prime = possible_prime]
NrpFrame(size_in_bytes) == [NrpIdle EXCEPT !.size_in_bytes = size_in_bytes]
GkFrame(p, q) == [GkIdle EXCEPT !.p = p, !.q = q]

NoReturn == [fn |-> "none", val |-> FALSE]

Start(c) ==
    /\ call = c
    /\ pc = c.fn
    /\ stack = << >>
    /\ ip = IF c.fn = "is_prime" THEN IpFrame(c.args[1]) ELSE IpIdle
    /\ nrp = IF c.fn = "new_random_prime" THEN NrpFrame(c.args[1]) ELSE NrpIdle
    /\ gk = IF c.fn = "generate_keypair" THEN GkFrame(c.args[1], c.args[2])
            ELSE GkIdle
    /\ ret = NoReturn
    /\ err = "none"

\* return val from fn to the caller, or end the run
Return(fn, val) ==
    /\ ret' = [fn |-> fn, val |-> val]
    /\ pc' = IF stack = << >> THEN "done" ELSE Head(stack)
    /\ stack' = IF stack = << >> THEN << >> ELSE Tail(stack)
    /\ err' = err

\* an exception nobody catches: the run ends
Raise(exception) ==
    /\ pc' = "error"
    /\ err' = exception
    /\ stack' = << >>
    /\ ret' = ret

(***************************************************************************)
(* The calls of the pure functions.                                        *)
(***************************************************************************)
RabinMiller ==
    /\ pc = "rabin_miller"
    /\ Return("rabin_miller", rabin_miller(call.args[1], call.args[2]))
    /\ UNCHANGED <<call, ip, nrp, gk>>

MultiplicativeInverse ==
    /\ pc = "multiplicative_inverse"
    /\ Return("multiplicative_inverse",
              multiplicative_inverse(call.args[1], call.args[2]))
    /\ UNCHANGED <<call, ip, nrp, gk>>

(***************************************************************************)
(* is_prime(possible_prime), lines 64-88                                   *)
(***************************************************************************)
IsPrimeSieve ==
    /\ pc = "is_prime"
    /\ LET verdict == SieveVerdict(ip.possible_prime)
       IN  IF verdict = "undecided"
           THEN /\ pc' = "is_prime_round"
                /\ ip' = [ip EXCEPT !.iteration = 0]
                /\ UNCHANGED <<stack, ret, err>>
           ELSE /\ Return("is_prime", verdict = "prime")
                /\ ip' = ip
    /\ UNCHANGED <<call, nrp, gk>>

\* one round of the loop of lines 82-86; leaving the loop is the return True
\* of line 88
IsPrimeRound ==
    /\ pc = "is_prime_round"
    /\ IF BCmp(ip.possible_prime, <<3>>) <= 0
       THEN /\ Raise("ValueError")
            /\ ip' = ip
       ELSE \E witness \in WitnessDraws(ip.possible_prime) :
              IF ~rabin_miller(ip.possible_prime, witness)
              THEN /\ Return("is_prime", FALSE)
                   /\ ip' = [ip EXCEPT !.witness = witness]
              ELSE IF ip.iteration + 1 = RABIN_MILLER_ITERATIONS
              THEN /\ Return("is_prime", TRUE)
                   /\ ip' = [ip EXCEPT !.witness = witness]
              ELSE /\ ip' = [ip EXCEPT !.witness = witness,
                                       !.iteration = ip.iteration + 1]
                   /\ UNCHANGED <<pc, stack, ret, err>>
    /\ UNCHANGED <<call, nrp, gk>>

(***************************************************************************)
(* new_random_prime(size_in_bytes), lines 118-134                          *)
(***************************************************************************)
NrpDraw ==
    /\ pc = "new_random_prime"
    /\ \E octets \in Urandom(nrp.size_in_bytes) :
         nrp' = [nrp EXCEPT !.octets = octets,
                            !.possible_prime = MakeOdd(string_to_int(octets)),
                            !.count = 0]
    /\ pc' = "nrp_loop"
    /\ UNCHANGED <<call, stack, ip, gk, ret, err>>

NrpTest ==
    /\ pc = "nrp_loop"
    /\ nrp' = [nrp EXCEPT !.count = nrp.count + 1]
    /\ ip' = IpFrame(nrp.possible_prime)
    /\ stack' = <<"nrp_tested">> \o stack
    /\ pc' = "is_prime"
    /\ UNCHANGED <<call, gk, ret, err>>

NrpTested ==
    /\ pc = "nrp_tested"
    /\ ip' = IpIdle
    /\ IF ret.val
       THEN /\ Return("new_random_prime", nrp.possible_prime)
            /\ nrp' = nrp
       ELSE /\ nrp' = [nrp EXCEPT
                          !.possible_prime = NextCandidate(nrp.possible_prime)]
            /\ pc' = "nrp_loop"
            /\ UNCHANGED <<stack, ret, err>>
    /\ UNCHANGED <<call, gk>>

(***************************************************************************)
(* generate_keypair(p, q), lines 197-223                                   *)
(***************************************************************************)
\* the test of the while of line 199; when it fails, lines 204-207
GkWhileEqual ==
    /\ pc = "generate_keypair"
    /\ IF gk.p = gk.q
       THEN /\ nrp' = NrpFrame(SIZE)
            /\ stack' = <<"gk_redrawn">> \o stack
            /\ pc' = "new_random_prime"
            /\ gk' = gk
       ELSE /\ gk' = [gk EXCEPT !.n = BMul(gk.p, gk.q),
                                !.phi = BMul(BSub(gk.p, One), BSub(gk.q, One))]
            /\ pc' = "gk_draw"
            /\ UNCHANGED <<nrp, stack>>
    /\ UNCHANGED <<call, ip, ret, err>>

\* line 199 as an if: q is redrawn once and never compared with p again
GkRedrawnOnce ==
    /\ pc = "gk_redrawn"
    /\ gk' = [gk EXCEPT !.q = ret.val,
                        !.n = BMul(gk.p, ret.val),
                        !.phi = BMul(BSub(gk.p, One), BSub(ret.val, One))]
    /\ nrp' = NrpIdle
    /\ pc' = "gk_draw"
    /\ UNCHANGED <<call, stack, ip, ret, err>>

\* line 201: q takes the prime new_random_prime returned
GkRedrawn ==
    /\ pc = "gk_redrawn"
    /\ gk' = [gk EXCEPT !.q = ret.val]
    /\ nrp' = NrpIdle
    /\ pc' = "generate_keypair"
    /\ UNCHANGED <<call, stack, ip, ret, err>>

\* lines 210-213
GkDraw ==
    /\ pc = "gk_draw"
    /\ IF BCmp(gk.phi, One) <= 0
       THEN /\ Raise("ValueError")
            /\ gk' = gk
       ELSE /\ \E e \in ExponentDraws(gk.phi) :
                 gk' = [gk EXCEPT !.e = e, !.g = gcd(e, gk.phi)]
            /\ pc' = "gk_while"
            /\ UNCHANGED <<stack, ret, err>>
    /\ UNCHANGED <<call, ip, nrp>>

\* the while of lines 214-216, and lines 219-223 when it ends
GkWhile ==
    /\ pc = "gk_while"
    /\ IF ExponentRejected(gk.g)
       THEN /\ \E e \in ExponentDraws(gk.phi) :
                 gk' = [gk EXCEPT !.e = e, !.g = gcd(e, gk.phi)]
            /\ UNCHANGED <<pc, stack, ret, err>>
       ELSE /\ gk' = [gk EXCEPT !.d = multiplicative_inverse(gk.e, gk.phi)]
            /\ Return("generate_keypair",
                      <<<<PyInt(gk.e), PyInt(gk.n)>>, <<gk'.d, PyInt(gk.n)>>>>)
    /\ UNCHANGED <<call, ip, nrp>>

(***************************************************************************)
(* The calls examined, and the specifications.                             *)
(***************************************************************************)
RabinMillerCalls ==
    {[fn |-> "rabin_miller", args |-> <<BFromInt(n), BFromInt(a)>>] :
        n \in {x \in 3..MaxRmCandidate : x % 2 = 1}, a \in 2..MaxRmCandidate}
    \cup {[fn |-> "rabin_miller", args |-> <<BFromInt(341), BFromInt(2)>>],
          [fn |-> "rabin_miller", args |-> <<WidePrime, BFromInt(2)>>],
          [fn |-> "rabin_miller", args |-> <<WidePrime, BFromInt(3)>>]}

InitRabinMiller ==
    \E c \in {x \in RabinMillerCalls :
                BCmp(BAdd(x.args[2], Two), x.args[1]) <= 0} : Start(c)

SpecRabinMiller == InitRabinMiller /\ [][RabinMiller]_vars

InverseCalls ==
    {[fn |-> "multiplicative_inverse", args |-> <<BFromInt(e), BFromInt(phi)>>] :
        e \in 1..MaxInverseArg, phi \in 2..MaxPhi}
    \cup {[fn |-> "multiplicative_inverse",
           args |-> <<BFromInt(17), BFromInt(3120)>>]}

InitInverse ==
    \E c \in {x \in InverseCalls : gcd(x.args[1], x.args[2]) = One} : Start(c)

SpecInverse == InitInverse /\ [][MultiplicativeInverse]_vars

PrimeCalls ==
    {[fn |-> "is_prime", args |-> <<BFromInt(n)>>] :
        n \in (0..MaxCandidate) \cup SieveSurvivors \cup SieveProducts}
    \cup {[fn |-> "new_random_prime", args |-> <<size>>] : size \in 1..MaxSize}

InitPrime == \E c \in PrimeCalls : Start(c)

NextPrime ==
    \/ IsPrimeSieve
    \/ IsPrimeRound
    \/ NrpDraw
    \/ NrpTest
    \/ NrpTested

SpecPrime == InitPrime /\ [][NextPrime]_vars

\* n is a prime number, by trial division
IsPrimeNumber(n) == n >= 2 /\ \A k \in 2..(n - 1) : n % k # 0

KeypairCalls ==
    {[fn |-> "generate_keypair", args |-> <<BFromInt(p), BFromInt(q)>>] :
        p \in {x \in 3..MaxPrime : IsPrimeNumber(x)},
        q \in {x \in 3..MaxPrime : IsPrimeNumber(x)}}
    \cup {[fn |-> "generate_keypair", args |-> <<BFromInt(61), BFromInt(53)>>]}

InitKeypair == \E c \in KeypairCalls : Start(c)

NextKeypair ==
    \/ GkWhileEqual
    \/ GkRedrawn
    \/ GkDraw
    \/ GkWhile
    \/ NrpDraw
    \/ NrpTest
    \/ NrpTested
    \/ IsPrimeSieve
    \/ IsPrimeRound

SpecKeypair == InitKeypair /\ [][NextKeypair]_vars

(***************************************************************************)
(* Reference notions the properties are stated with.                       *)
(***************************************************************************)
RECURSIVE GcdInt(_, _)
GcdInt(a, b) == IF b = 0 THEN a ELSE GcdInt(b, a % b)

OddPrime(m) == m % 2 = 1 /\ IsPrimeNumber(m)

DividesSievePrime(n) == \E i \in 1..Len(SievePrimes) : n % SievePrimes[i] = 0

InSieveList(n) == \E i \in 1..Len(SievePrimes) : n = SievePrimes[i]

\* n - 1 = 2^s * r with r odd
RECURSIVE ExactDecompose(_, _)
ExactDecompose(r, s) ==
    IF BIsOdd(r) THEN [r |-> r, s |-> s] ELSE ExactDecompose(BShr(r, 1), s + 1)

\* one of y^(2^j), j < s, is n - 1 modulo n
RECURSIVE SomeSquareIsMinusOne(_, _, _, _)
SomeSquareIsMinusOne(y, j, s, n) ==
    /\ j < s
    /\ \/ y = BSub(n, One)
       \/ SomeSquareIsMinusOne(Mod(BMul(y, y), n), j + 1, s, n)

\* n is a strong probable prime to base a
StrongProbablePrime(n, a) ==
    LET D == ExactDecompose(BSub(n, One), 0)
        y == ModExp(a, D.r, n)
    IN  y = One \/ SomeSquareIsMinusOne(y, 0, D.s, n)

\* n is a prime: by trial division below 2^30, and the one wide candidate
IsKnownPrime(n) ==
    \/ n = WidePrime
    \/ BBitLen(n) <= 30 /\ IsPrimeNumber(BToInt(n))

\* -1, 0 or 1 as |a| < |b|, |a| = |b|, |a| > |b|, exactly
PyCmpAbs(a, b) ==
    LET x == IF a.exp < b.exp THEN a.exp ELSE b.exp
    IN  BCmp(BShl(a.man, a.exp - x), BShl(b.man, b.exp - x))

\* a % b for an int b > 0: exact on ints; on a float the exact remainder of
\* |a|, which a negative a moves into [0, b) by one rounded addition
PyMod(a, b) ==
    IF BothInt(a, b)
    THEN LET r == BDivMod(a.man, b.man).r
         IN  IF a.neg /\ r # << >> THEN PyInt(BSub(b.man, r)) ELSE PyInt(r)
    ELSE LET fa == AsFloat(a)
             fb == AsFloat(b)
             x  == IF fa.exp < fb.exp THEN fa.exp ELSE fb.exp
             r  == BDivMod(BShl(fa.man, fa.exp - x), BShl(fb.man, fb.exp - x)).r
             m  == FRound(FALSE, r, x, FALSE)
         IN  IF fa.neg /\ r # << >> THEN PyFloat(FSub(fb, m)) ELSE PyFloat(m)

\* a == b
PyEqual(a, b) ==
    /\ PyCmpAbs(a, b) = 0
    /\ (a.man = << >> \/ a.neg = b.neg)

\* (e * d) % phi == 1, as Python evaluates it
InverseHolds(e, d, phi) == PyEqual(PyMod(PyMul(e, d), phi), PyInt(One))

KeypairModulus == PyInt(BMul(gk.p, gk.q))
KeypairPhi == PyInt(BMul(BSub(gk.p, One), BSub(gk.q, One)))

SearchLocations ==
    {"new_random_prime", "nrp_loop", "nrp_tested", "is_prime", "is_prime_round"}

(***************************************************************************)
(* The properties.                                                         *)
(***************************************************************************)
\* C1: generate_keypair(p, q) returns ((e, n), (d, n)) with n = p * q and
\* (e * d) mod ((p - 1) * (q - 1)) = 1.
C1_KeypairInverse ==
    pc = "done" =>
        /\ ret.val[1][2] = KeypairModulus
        /\ ret.val[2][2] = KeypairModulus
        /\ InverseHolds(ret.val[1][1], ret.val[2][1], KeypairPhi)

\* C2: for coprime e and phi, multiplicative_inverse(e, phi) returns d with
\* (e * d) mod phi = 1; multiplicative_inverse(17, 3120) is 2753.
C2_InverseProperty ==
    pc = "done" =>
        /\ InverseHolds(PyInt(call.args[1]), ret.val, PyInt(call.args[2]))
        /\ call.args = <<BFromInt(17), BFromInt(3120)>>
              => ret.val = PyInt(BFromInt(2753))

\* C3: for e < phi, the value multiplicative_inverse(e, phi) returns lies in
\* [0, phi).
C3_InverseInRange ==
    (pc = "done" /\ BCmp(call.args[1], call.args[2]) < 0) =>
        /\ ~ret.val.neg
        /\ PyCmpAbs(ret.val, PyInt(call.args[2])) < 0

\* C4: new_random_prime never ends in an error, whatever bytes are drawn, and
\* the value it returns is odd and is one the sieve does not reject.
C4_PrimeSearchReturns ==
    call.fn = "new_random_prime" =>
        /\ pc # "error"
        /\ pc = "done" =>
              /\ BIsOdd(ret.val)
              /\ SieveVerdict(ret.val) # "composite"

\* C5: when generate_keypair is called with p = q, p keeps its value, q is
\* redrawn by new_random_prime(SIZE) until it differs from p, and the modulus,
\* computed only then, is p * q and never p * p.
C5_EqualPrimesRedrawn ==
    call.args[1] = call.args[2] =>
        /\ gk.p = call.args[1]
        /\ pc \in SearchLocations => nrp.size_in_bytes = SIZE
        /\ gk.n # Unset =>
              /\ gk.q # gk.p
              /\ BToInt(gk.n) = BToInt(gk.p) * BToInt(gk.q)
              /\ BToInt(gk.n) # BToInt(gk.p) * BToInt(gk.p)
        /\ pc = "done" =>
              /\ ret.val[1][2] = PyInt(gk.n)
              /\ ret.val[2][2] = PyInt(gk.n)

C5_Witness ==
    /\ pc = "done"
    /\ call.args = <<BFromInt(3), BFromInt(3)>>
    /\ gk.q = BFromInt(263)
    /\ gk.n = BFromInt(3 * 263)

\* C6: a candidate n >= 2 that a sieve prime divides is decided by the sieve:
\* is_prime never reaches the Rabin-Miller rounds, draws no witness, and
\* returns True exactly when n is itself in the sieve list.
C6_SieveDecides ==
    LET n == BToInt(ip.possible_prime)
    IN  (ip.possible_prime # Unset /\ n >= 2 /\ DividesSievePrime(n)) =>
            /\ pc # "is_prime_round"
            /\ ip.iteration = -1
            /\ ip.witness = Unset
            /\ (ret.fn = "is_prime" /\ pc \in {"done", "nrp_tested"})
                  => ret.val = InSieveList(n)

C6_Witness ==
    /\ pc = "done"
    /\ call.fn = "is_prime"
    /\ call.args[1] = BFromInt(257 * 257)
    /\ ret.val = FALSE

\* C7: for every odd n >= 3 and a in [2, n - 2], rabin_miller(n, a) is true
\* exactly when n is a strong probable prime to base a; rabin_miller(341, 2)
\* is false.
C7_RabinMillerIsStrongTest ==
    pc = "done" =>
        /\ ret.val = StrongProbablePrime(call.args[1], call.args[2])
        /\ call.args = <<BFromInt(341), BFromInt(2)>> => ret.val = FALSE

C9_PrimesPass ==
    (pc = "done" /\ IsKnownPrime(call.args[1])
                 /\ BCmp(call.args[1], <<5>>) >= 0) => ret.val = TRUE

\* C10: the value new_random_prime(size_in_bytes) returns is below
\* 256^size_in_bytes.
C10_FitsRequestedSize ==
    (pc = "done" /\ call.fn = "new_random_prime") =>
        BCmp(ret.val, BShl(One, 8 * nrp.size_in_bytes)) < 0

\* C10, as the code has it: for size_in_bytes <= 6 the value returned is at
\* least the integer drawn and no odd prime lies between the integer drawn
\* and it; so it is below 256^size_in_bytes whenever an odd prime lies
\* between the integer drawn and 256^size_in_bytes, and not otherwise bounded.
C10_NoOddPrimeSkipped ==
    (pc = "done" /\ call.fn = "new_random_prime" /\ nrp.size_in_bytes <= 6) =>
        LET drawn  == BToInt(string_to_int(nrp.octets))
            result == BToInt(ret.val)
        IN  /\ result >= drawn
            /\ \A m \in drawn..(result - 1) : ~OddPrime(m)

C10_Witness ==
    /\ pc = "done"
    /\ call.fn = "new_random_prime"
    /\ nrp.octets = <<255>>
    /\ ret.val = BFromInt(257)

====
